---- MODULE Spec2Model ----
(***************************************************************************)
(* Analysis of 1-safe Petri nets: the net model (utils/petri_net.py,       *)
(* utils/marking.py), the explicit BFS oracle                              *)
(* (explicit_reachability/reachability.py), the symbolic engine            *)
(* (bdd_reachability/symbolic_reachability.py), the hybrid deadlock        *)
(* detector (ilp_deadlock/deadlock_detector.py) and the branch-and-bound   *)
(* optimizer (optimization/optimizer.py).                                  *)
(*                                                                         *)
(* Place ids are the integers 1..n, standing for "p1" < "p2" < ...; their  *)
(* numeric order is the sorted order of the names.  Transition ids are     *)
(* 11, 12, ...  A Python list is a sequence, a dict a function, None the   *)
(* empty set and a present optional value a one-element set.               *)
(*                                                                         *)
(* A BDD is a canonical form of a Boolean function, so it is modelled by   *)
(* the function it denotes: over the current variables, the set of         *)
(* assignments [places -> BOOLEAN] that satisfy it; over current and next  *)
(* variables, the set of pairs <<s, s'>>.  Equality of these sets is node  *)
(* identity of the reduced ordered diagrams.                               *)
(***************************************************************************)
EXTENDS Integers, Sequences, FiniteSets, TLC

VARIABLES
    places, transitions, arcs, initial_marking,      \* PetriNet
    incidence,                                       \* PetriNet.incidence (cache)
    bdd_manager, transition_relation, reachable_bdd, \* BDDReachability
    R, fixpoint_iter,                                \* locals of the fixpoint loop
    extracted,                                       \* result of extract_markings
    queue, reachable_markings, transition_graph,     \* ExplicitReachability
    cuts, iteration, status, deadlocks, det_result,  \* DeadlockDetector
    place_weights, mode, stack, best_score,          \* MarkingOptimizer
    best_mark, opt_result,
    picks, opt_log,                                  \* dd's first picks; past calls
    call, ret,                                       \* a call of a net operation
    cancel_token,                                    \* the caller's wish to stop
    pc                                               \* position of the caller

netVars == <<places, transitions, arcs, initial_marking>>
bddVars == <<bdd_manager, transition_relation, reachable_bdd, R, fixpoint_iter,
            extracted>>
bfsVars == <<queue, reachable_markings, transition_graph>>
detVars == <<cuts, iteration, status, deadlocks, det_result>>
optVars == <<place_weights, mode, stack, best_score, best_mark, opt_result,
            picks, opt_log>>
callVars == <<call, ret, cancel_token>>

vars == <<netVars, incidence, bddVars, bfsVars, detVars, optVars, callVars, pc>>

(***************************************************************************)
(* Bounds of the model.                                                    *)
(***************************************************************************)
NumPlaces == 3
MaxArcs == 4

\* The transition ids a net draws from.
TransitionIds == {11, 12}

None == {}
Some(v) == {v}
TheValue(o) == CHOOSE v \in o : TRUE

TransIds(nt) == {t \in TransitionIds : t <= 10 + nt}

(***************************************************************************)
(* utils/marking.py                                                        *)
(***************************************************************************)
\* Marking.__init__: every token value is normalised with bool().
Marking(marking_dict) == [p \in DOMAIN marking_dict |-> marking_dict[p] # 0]

\* Marking.has_token: self.marking.get(place, False).
has_token(m, place) == IF place \in DOMAIN m THEN m[place] ELSE FALSE

\* Marking.set_token: self.marking[place] = bool(has_token).
set_token(m, place, b) ==
    [q \in (DOMAIN m) \cup {place} |-> IF q = place THEN b ELSE m[q]]

\* Marking.to_dict: 1/0 per entry.
to_dict(m) == [p \in DOMAIN m |-> IF m[p] THEN 1 ELSE 0]

\* Marking.copy: a new object with the same entries.
copy(m) == m

\* Variant: every entry counts, marked or not.
total_tokens_Entries(m) == Cardinality(DOMAIN m)

\* Marking.total_tokens.
total_tokens(m) == Cardinality({p \in DOMAIN m : m[p]})

\* Marking.__eq__ on two Marking objects: self.marking == other.marking, the
\* equality of two dicts: the same keys with the same values.
marking_eq(a, b) ==
    /\ DOMAIN a = DOMAIN b
    /\ \A p \in DOMAIN a : a[p] = b[p]

RECURSIVE to_tuple(_)
\* Marking.to_tuple: tuple(sorted(self.marking.items())).
to_tuple(m) ==
    IF DOMAIN m = {} THEN <<>>
    ELSE LET p == CHOOSE a \in DOMAIN m : \A b \in DOMAIN m : b <= a
         IN Append(to_tuple([q \in (DOMAIN m) \ {p} |-> m[q]]), <<p, m[p]>>)

\* Marking.__hash__: the hash of the sorted items, kept as the items.
marking_hash(m) == to_tuple(m)

\* `b in {a}`: the same hash and equal.
in_set_of(a, b) == marking_hash(a) = marking_hash(b) /\ marking_eq(a, b)

\* Marking.to_vector
to_vector(m, order) ==
    [i \in 1..Len(order) |-> IF has_token(m, order[i]) THEN 1 ELSE 0]

\* Marking.from_vector: the dict of zip(places, vector), a later pair for the
\* same place replacing an earlier one, then Marking(marking_dict).
from_vector(vector, order) ==
    IF Len(vector) # Len(order)
    THEN [raised |-> "ValueError: length", value |-> None]
    ELSE [raised |-> "",
          value |-> Some(Marking(
              [p \in {order[i] : i \in 1..Len(order)} |->
                  LET last == CHOOSE i \in 1..Len(order) :
                                 /\ order[i] = p
                                 /\ \A j \in 1..Len(order) :
                                        order[j] = p => j <= i
                  IN IF vector[last] # 0 THEN 1 ELSE 0]))]

(***************************************************************************)
(* utils/petri_net.py                                                      *)
(***************************************************************************)
SeqToSet(s) == {s[i] : i \in 1..Len(s)}

\* Variant: one marked input place is enough.
AllInputsMarked_Any(transition, marking) ==
    \E i \in 1..Len(arcs[transition].input) :
        has_token(marking, arcs[transition].input[i])

\* The loop of is_enabled over arcs[transition]['input'].
AllInputsMarked(transition, marking) ==
    \A i \in 1..Len(arcs[transition].input) :
        has_token(marking, arcs[transition].input[i])

\* PetriNet.is_enabled: raises ValueError for an unknown transition.
is_enabled_raises(transition) == transition \notin transitions
is_enabled(transition, marking) == AllInputsMarked(transition, marking)

RECURSIVE SetAll(_, _, _, _)
\* for place in lst[1..n]: m.set_token(place, b)
SetAll(m, lst, n, b) ==
    IF n = 0 THEN m ELSE set_token(SetAll(m, lst, n - 1, b), lst[n], b)

\* The body of fire_transition after its checks: copy, clear the input
\* places, then set the output places.
FireClearedMarking(transition, marking) ==
    SetAll(copy(marking), arcs[transition].input,
           Len(arcs[transition].input), FALSE)

\* Variant: the output places are set first, the input places cleared last.
fire_SetThenClear(transition, marking) ==
    SetAll(SetAll(marking, arcs[transition].output,
                  Len(arcs[transition].output), TRUE),
           arcs[transition].input, Len(arcs[transition].input), FALSE)

fire(transition, marking) ==
    SetAll(FireClearedMarking(transition, marking),
           arcs[transition].output, Len(arcs[transition].output), TRUE)

\* Variant: no copy is made, the writes go to the argument itself.
ArgAfterFire_InPlace(transition, marking) == fire(transition, marking)

\* The entries of the argument object once fire_transition has fired: the
\* writes go to new_marking = marking.copy(), none to the argument.
ArgAfterFire(transition, marking) == marking

\* The outcome of a call on a marking: the error raised (or ""), the value
\* returned, the object returned ("new": one the call built, "arg": the
\* argument itself, "none"), and the entries of the argument after the call.
Raise(error, marking) ==
    [raised |-> error, value |-> None, obj |-> "none", arg |-> marking]

\* Variant: no enabledness check before firing.
fire_transition_Unchecked(transition, marking) ==
    IF transition \notin transitions
    THEN Raise("ValueError: does not exist", marking)
    ELSE [raised |-> "", value |-> Some(fire(transition, marking)),
          obj |-> "new", arg |-> ArgAfterFire(transition, marking)]

\* PetriNet.fire_transition.
fire_transition(transition, marking) ==
    IF transition \notin transitions
    THEN Raise("ValueError: does not exist", marking)
    ELSE IF ~is_enabled(transition, marking)
    THEN Raise("ValueError: not enabled", marking)
    ELSE [raised |-> "", value |-> Some(fire(transition, marking)),
          obj |-> "new", arg |-> ArgAfterFire(transition, marking)]

\* A call of is_enabled from outside.
is_enabled_call(transition, marking) ==
    IF is_enabled_raises(transition)
    THEN Raise("ValueError: does not exist", marking)
    ELSE [raised |-> "", value |-> Some(is_enabled(transition, marking)),
          obj |-> "none", arg |-> marking]

\* PetriNet.get_enabled_transitions.
get_enabled_transitions(marking) ==
    {t \in transitions : is_enabled(t, marking)}

\* A call of get_enabled_transitions from outside.
get_enabled_transitions_call(marking) ==
    [raised |-> "", value |-> Some(get_enabled_transitions(marking)),
     obj |-> "new", arg |-> marking]

\* The net as the four fields of the PetriNet object, with the error an
\* operation raised on it ("" when it returned).
NetAfter(error, ps, ts, flow, m0) ==
    [raised |-> error, places |-> ps, transitions |-> ts, arcs |-> flow,
     initial_marking |-> m0]

\* An operation raised before it wrote anything.
NetUnchanged(error) ==
    NetAfter(error, places, transitions, arcs, initial_marking)

\* Variant: the token state is recorded before the id is checked.
add_place_SetFirst(place_id, tok) ==
    IF place_id \in places
    THEN NetAfter("ValueError: already exists", places, transitions, arcs,
                  set_token(initial_marking, place_id, tok))
    ELSE NetAfter("", places \cup {place_id}, transitions, arcs,
                  set_token(initial_marking, place_id, tok))

\* Variant: the token state of a new place is not recorded.
add_place_NoEntry(place_id, tok) ==
    IF place_id \in places
    THEN NetUnchanged("ValueError: already exists")
    ELSE NetAfter("", places \cup {place_id}, transitions, arcs,
                  initial_marking)

\* PetriNet.add_place
add_place(place_id, tok) ==
    IF place_id \in places
    THEN NetUnchanged("ValueError: already exists")
    ELSE NetAfter("", places \cup {place_id}, transitions, arcs,
                  set_token(initial_marking, place_id, tok))

\* self.arcs[transition_id] = {'input': [], 'output': []}
WithEntry(flow, transition_id) ==
    [t \in (DOMAIN flow) \cup {transition_id} |->
        IF t = transition_id THEN [input |-> <<>>, output |-> <<>>]
        ELSE flow[t]]

\* PetriNet.add_transition
add_transition(transition_id) ==
    IF transition_id \in transitions
    THEN NetUnchanged("ValueError: already exists")
    ELSE NetAfter("", places, transitions \cup {transition_id},
                  WithEntry(arcs, transition_id), initial_marking)

\* if t not in self.arcs: self.arcs[t] = {'input': [], 'output': []}
EnsureEntry(flow, t) == IF t \in DOMAIN flow THEN flow ELSE WithEntry(flow, t)

\* Variant: only the transition end of the arc is checked.
add_arc_AnyPlace(source, target) ==
    IF target \in transitions
    THEN NetAfter("", places, transitions,
                  [EnsureEntry(arcs, target) EXCEPT
                      ![target].input = Append(@, source)],
                  initial_marking)
    ELSE IF source \in transitions
    THEN NetAfter("", places, transitions,
                  [EnsureEntry(arcs, source) EXCEPT
                      ![source].output = Append(@, target)],
                  initial_marking)
    ELSE NetUnchanged("ValueError: invalid arc")

\* PetriNet.add_arc
add_arc(source, target) ==
    IF source \in places /\ target \in transitions
    THEN NetAfter("", places, transitions,
                  [EnsureEntry(arcs, target) EXCEPT
                      ![target].input = Append(@, source)],
                  initial_marking)
    ELSE IF source \in transitions /\ target \in places
    THEN NetAfter("", places, transitions,
                  [EnsureEntry(arcs, source) EXCEPT
                      ![source].output = Append(@, target)],
                  initial_marking)
    ELSE NetUnchanged("ValueError: invalid arc")

\* The errors validate_consistency collects, as a set (the list may name an
\* error once per listing).
validate_errors ==
    {[error |-> "no arc information", id |-> t] :
        t \in transitions \ DOMAIN arcs}
    \cup {[error |-> "non-existent transition", id |-> t] :
            t \in (DOMAIN arcs) \ transitions}
    \cup UNION {{[error |-> "input non-existent place", id |-> p] :
                    p \in SeqToSet(arcs[t].input) \ places} : t \in DOMAIN arcs}
    \cup UNION {{[error |-> "output non-existent place", id |-> p] :
                    p \in SeqToSet(arcs[t].output) \ places} : t \in DOMAIN arcs}

\* PetriNet.validate_consistency: (len(errors) == 0, errors), and the initial
\* marking with a 0 entry for every place it did not list.
validate_consistency ==
    [ok |-> validate_errors = {},
     errors |-> validate_errors,
     initial_marking |->
        [p \in (DOMAIN initial_marking) \cup places |->
            IF p \in DOMAIN initial_marking THEN initial_marking[p]
            ELSE FALSE]]

\* The number of times place p is listed in lst.
CountIn(lst, p) == Cardinality({i \in 1..Len(lst) : lst[i] = p})

\* The matrix get_incidence builds: -1 for every listing of p in the input
\* list of t, +1 for every listing in the output list.
compute_incidence ==
    [p \in places |->
        [t \in transitions |->
            CountIn(arcs[t].output, p) - CountIn(arcs[t].input, p)]]

\* PetriNet.get_incidence: the value of self.incidence after the call.
get_incidence ==
    IF incidence = None THEN Some(compute_incidence) ELSE incidence

(***************************************************************************)
(* The nets the model runs on: places 1..np, transitions 11..10+nt, every  *)
(* input and output list sorted, at most MaxArcs arcs in all, each arc at  *)
(* most mult times (the same add_arc call repeated).                       *)
(***************************************************************************)
RECURSIVE Repeat(_, _)
Repeat(p, k) == IF k = 0 THEN <<>> ELSE <<p>> \o Repeat(p, k - 1)

RECURSIVE ListOf(_, _)
ListOf(f, n) == IF n = 0 THEN <<>> ELSE ListOf(f, n - 1) \o Repeat(n, f[n])

RECURSIVE SumTo(_, _)
SumTo(f, n) == IF n = 0 THEN 0 ELSE SumTo(f, n - 1) + f[n]

ArcLists(np, mult, budget) ==
    {ListOf(f, np) : f \in {g \in [1..np -> 0..mult] : SumTo(g, np) <= budget}}

RECURSIVE ArcsFamily(_, _, _, _)
ArcsFamily(ts, np, mult, budget) ==
    IF ts = {} THEN {<<>>}
    ELSE LET t == CHOOSE x \in ts : \A y \in ts : y <= x
         IN UNION {UNION {{(t :> [input |-> i, output |-> o]) @@ rest :
                            rest \in ArcsFamily(ts \ {t}, np, mult,
                                                budget - Len(i) - Len(o))} :
                          o \in ArcLists(np, mult, budget - Len(i))} :
                   i \in ArcLists(np, mult, budget)}

\* A net as PNMLParser / add_place / add_transition / add_arc build it: the
\* initial marking has an entry for every place.
NetInit(mult, budget) ==
    \E np \in 0..NumPlaces, nt \in 0..Cardinality(TransitionIds) :
        /\ places = 1..np
        /\ transitions = TransIds(nt)
        /\ arcs \in ArcsFamily(TransIds(nt), np, mult, budget)
        /\ initial_marking \in [1..np -> BOOLEAN]
        /\ incidence = None

(***************************************************************************)
(* bdd_reachability/symbolic_reachability.py                               *)
(***************************************************************************)
\* The assignments to the current-variable family (one variable per place).
Assign == [places -> BOOLEAN]

bdd_false == {}
bdd_true == Assign

\* _build_transition_maps: the dict branch copies arcs[t]['input'/'output'].
trans_in(t) == arcs[t].input
trans_out(t) == arcs[t].output

\* Variant: a transition is enabled at every marking.
enabled_bdd_Any(t) == Assign

\* enabled(s): the conjunction of the current variables of the pre places.
enabled_bdd(t) ==
    {s \in Assign : \A i \in 1..Len(trans_in(t)) : s[trans_in(t)[i]]}

\* Variant: the consumed test before the produced test.
next_cons_place_PreFirst(pre, post, p, s, sp) ==
    IF p \in pre THEN ~sp[p]
    ELSE IF p \in post THEN sp[p]
    ELSE sp[p] = s[p]

\* The constraint next_cons puts on one place p, for a pair (s, sp) of
\* current and next assignments; pre and post are the sets of listed places.
next_cons_place(pre, post, p, s, sp) ==
    IF p \in post THEN sp[p]
    ELSE IF p \in pre THEN ~sp[p]
    ELSE sp[p] = s[p]

\* enabled & next_cons for one transition: next_cons is the conjunction of
\* next_cons_place over all places.
transition_bdd(t) ==
    LET pre == SeqToSet(trans_in(t))
        post == SeqToSet(trans_out(t))
    IN {pr \in enabled_bdd(t) \X Assign :
           \A p \in places : next_cons_place(pre, post, p, pr[1], pr[2])}

\* _build_transition_relation: T = OR_t (enabled_t & next_cons_t).
build_transition_relation ==
    UNION {transition_bdd(t) : t \in transitions}

RECURSIVE SortedSeq(_)
\* places.sort()
SortedSeq(S) ==
    IF S = {} THEN <<>>
    ELSE LET x == CHOOSE a \in S : \A b \in S : b <= a
         IN Append(SortedSeq(S \ {x}), x)

\* encode_marking: the conjunction of var or ~var for every place.
encode_marking(marking) ==
    {s \in Assign : \A p \in places : s[p] = has_token(marking, p)}

\* Variant: the quantifier takes the next names away and nothing is renamed.
post_Pre(Rset) ==
    LET prod == {pr \in TheValue(transition_relation) : pr[1] \in Rset}
    IN {pr[1] : pr \in prod}

\* post: (R & T), exist over the current names, rename p' to p.
post(Rset) ==
    LET prod == {pr \in TheValue(transition_relation) : pr[1] \in Rset}
    IN {pr[2] : pr \in prod}

\* The variables a BDD depends on (dd: BDD.support).
Support(u) ==
    {p \in places :
        \E s \in Assign : (s \in u) # ([s EXCEPT ![p] = ~s[p]] \in u)}

\* dd: BDD.pick_iter(u) with care_vars left to its default, the support of
\* u: the satisfying assignments, as dicts over the support alone.
pick_iter(u) ==
    {[p \in Support(u) |-> s[p]] : s \in u}

\* _extract_markings_from_bdd: m[p] = assign.get(p, False) for every place.
extract_markings_from_bdd(u) ==
    IF places = {}
    THEN (IF u # bdd_false THEN {Marking(<<>>)} ELSE {})
    ELSE {Marking([p \in places |->
                      IF p \in DOMAIN assign /\ assign[p] THEN 1 ELSE 0]) :
            assign \in pick_iter(u)}

\* extract_markings() with no argument, after initialize_bdd.
extract_markings ==
    IF reachable_bdd = None THEN {}
    ELSE extract_markings_from_bdd(TheValue(reachable_bdd))

\* Variant: the marking's encoding is compared with the whole reachable BDD.
is_reachable_Equal(marking) ==
    encode_marking(marking) = TheValue(reachable_bdd)

\* is_reachable, once the reachable set is there.
is_reachable(marking) ==
    (encode_marking(marking) \cap TheValue(reachable_bdd)) # bdd_false

\* initialize_bdd
InitializeBdd ==
    /\ pc = "start"
    /\ bdd_manager' = Some(SortedSeq(places))
    /\ transition_relation' = Some(build_transition_relation)
    /\ reachable_bdd' = Some(bdd_false)
    /\ pc' = "initialized"
    /\ UNCHANGED <<netVars, incidence, R, fixpoint_iter, extracted, bfsVars,
                   detVars, optVars, callVars>>

\* compute_symbolic_reachability up to the loop: initialise when the manager
\* is missing, then R = encode_marking(initial_marking).
ComputeStart ==
    /\ pc \in {"start", "initialized"}
    /\ IF bdd_manager = None
       THEN /\ bdd_manager' = Some(SortedSeq(places))
            /\ transition_relation' = Some(build_transition_relation)
       ELSE UNCHANGED <<bdd_manager, transition_relation>>
    /\ reachable_bdd' = Some(bdd_false)
    /\ R' = encode_marking(initial_marking)
    /\ fixpoint_iter' = 0
    /\ pc' = "fixpoint"
    /\ UNCHANGED <<netVars, incidence, extracted, bfsVars, detVars, optVars, callVars>>

RECURSIVE Pow2(_)
Pow2(k) == IF k = 0 THEN 1 ELSE 2 * Pow2(k - 1)

\* No run of the loop over a net of the family makes more passes than there
\* are markings; a run that did stops here.
MaxPasses == Pow2(NumPlaces)

\* Variant: the loop never sees the sets equal.
FixpointReached_Never(Rcur, Rnext) == FALSE

\* Variant: the loop body runs once.
FixpointReached_Once(Rcur, Rnext) == TRUE

\* The loop's exit test: Rnext == R.
FixpointReached(Rcur, Rnext) == Rnext = Rcur

\* One iteration of the while loop: Rnext = R | post(R); break when equal.
FixpointIter ==
    /\ pc = "fixpoint"
    /\ fixpoint_iter <= MaxPasses
    /\ fixpoint_iter' = fixpoint_iter + 1
    /\ LET Rnext == R \cup post(R)
       IN IF FixpointReached(R, Rnext)
          THEN /\ reachable_bdd' = Some(R)
               /\ pc' = "computed"
               /\ R' = R
          ELSE /\ R' = Rnext
               /\ UNCHANGED <<reachable_bdd, pc>>
    /\ UNCHANGED <<netVars, incidence, bdd_manager, transition_relation, extracted,
                   bfsVars, detVars, optVars, callVars>>

\* extract_markings(reachable_bdd)
ExtractMarkings ==
    /\ pc = "computed"
    /\ extracted' = Some(extract_markings)
    /\ pc' = "extracted"
    /\ UNCHANGED <<netVars, incidence, bdd_manager, transition_relation,
                   reachable_bdd, R, fixpoint_iter, bfsVars, detVars, optVars,
                   callVars>>

RECURSIVE fixpoint(_, _)
\* The while loop of compute_symbolic_reachability run to its end from Rset,
\* over the transition relation T.
fixpoint(T, Rset) ==
    LET Rnext == Rset \cup {pr[2] : pr \in {q \in T : q[1] \in Rset}}
    IN IF FixpointReached(Rset, Rnext) THEN Rset ELSE fixpoint(T, Rnext)

RECURSIVE fixpoint_passes(_, _)
\* The number of passes that loop makes from Rset.
fixpoint_passes(T, Rset) ==
    LET Rnext == Rset \cup {pr[2] : pr \in {q \in T : q[1] \in Rset}}
    IN IF FixpointReached(Rset, Rnext) THEN 1 ELSE 1 + fixpoint_passes(T, Rnext)

\* is_reachable(marking), the whole call: with no reachable_bdd yet it runs
\* compute_symbolic_reachability(net.initial_marking) first, which
\* initializes the manager when there is none; then it answers whether
\* enc & reachable_bdd is not false.
CallIsReachable ==
    /\ pc \in {"start", "initialized", "computed"}
    /\ \E marking \in Assign :
          LET T == IF bdd_manager = None THEN build_transition_relation
                   ELSE TheValue(transition_relation)
              u == IF reachable_bdd = None
                   THEN fixpoint(T, encode_marking(initial_marking))
                   ELSE TheValue(reachable_bdd)
          IN /\ IF reachable_bdd = None
                THEN /\ bdd_manager' = Some(SortedSeq(places))
                     /\ transition_relation' = Some(T)
                     /\ reachable_bdd' = Some(u)
                     /\ R' = u
                     /\ fixpoint_iter' =
                            fixpoint_passes(T, encode_marking(initial_marking))
                     /\ pc' = "computed"
                ELSE UNCHANGED <<bdd_manager, transition_relation,
                                 reachable_bdd, R, fixpoint_iter, pc>>
             /\ call' = [op |-> "is_reachable", transition |-> 0,
                         marking |-> marking, alias |-> FALSE,
                         other |-> <<>>, args |-> <<>>]
             /\ ret' = [raised |-> "",
                        value |-> Some((encode_marking(marking) \cap u) # bdd_false),
                        obj |-> "none", arg |-> <<>>]
    /\ UNCHANGED <<netVars, incidence, extracted, bfsVars, detVars, optVars,
                   cancel_token>>

(***************************************************************************)
(* explicit_reachability/reachability.py                                   *)
(***************************************************************************)
\* Variant: every marking a firing gives is new.
unseen_Always(new_marking, reach) == TRUE

\* new_marking not in self.reachable_markings
unseen(new_marking, reach) == new_marking \notin reach

\* Variant: the edge replaces the edges of the marking.
with_edge_Replace(graph, current, t, new_marking) ==
    [graph EXCEPT ![current] = (t :> new_marking)]

\* self.transition_graph[current][t] = new_marking
with_edge(graph, current, t, new_marking) ==
    [graph EXCEPT ![current] = (t :> new_marking) @@ @]

RECURSIVE ExploreEnabled(_, _, _)
\* The for loop over the enabled transitions of one dequeued marking, in
\* ascending id order; st carries reachable_markings, queue, transition_graph.
ExploreEnabled(current, enabled, st) ==
    IF enabled = <<>> THEN st
    ELSE LET t == Head(enabled)
             new_marking == TheValue(fire_transition(t, current).value)
             withEdge == with_edge(st.graph, current, t, new_marking)
             st1 == IF unseen(new_marking, st.reach)
                    THEN [reach |-> st.reach \cup {new_marking},
                          queue |-> Append(st.queue, new_marking),
                          graph |-> IF new_marking \in DOMAIN withEdge
                                    THEN withEdge
                                    ELSE (new_marking :> <<>>) @@ withEdge]
                    ELSE [st EXCEPT !.graph = withEdge]
         IN ExploreEnabled(current, Tail(enabled), st1)

\* compute_reachability up to the loop.
BfsStart ==
    /\ pc = "extracted"
    /\ reachable_markings' = {initial_marking}
    /\ transition_graph' = (initial_marking :> <<>>)
    /\ queue' = <<initial_marking>>
    /\ pc' = "bfs"
    /\ UNCHANGED <<netVars, incidence, bddVars, detVars, optVars, callVars>>

\* One iteration of `while queue`.
BfsStep ==
    /\ pc = "bfs"
    /\ queue # <<>>
    /\ LET current == Head(queue)
           st == ExploreEnabled(current,
                                SortedSeq(get_enabled_transitions(current)),
                                [reach |-> reachable_markings,
                                 queue |-> Tail(queue),
                                 graph |-> transition_graph])
       IN /\ reachable_markings' = st.reach
          /\ queue' = st.queue
          /\ transition_graph' = st.graph
    /\ UNCHANGED <<netVars, incidence, bddVars, detVars, optVars, callVars, pc>>

\* The loop ends: return self.reachable_markings.
BfsReturn ==
    /\ pc = "bfs"
    /\ queue = <<>>
    /\ pc' = "done"
    /\ UNCHANGED <<netVars, incidence, bddVars, bfsVars, detVars, optVars, callVars>>

(***************************************************************************)
(* ilp_deadlock/deadlock_detector.py                                       *)
(*                                                                         *)
(* The ILP solver is modelled by what a correct solve returns: status      *)
(* Infeasible when no (x, n) satisfies the constraints, else status        *)
(* Optimal with the x of some solution that minimises the total number of  *)
(* firings.  x is fixed by n through the state equation, so the solutions  *)
(* are enumerated by n, each n[t] in 0..FiringBound.                       *)
(***************************************************************************)
\* No minimal solution of a net of the family fires a transition more often
\* than the net has arcs.
FiringBound == MaxArcs

RECURSIVE SumOver(_, _)
\* lpSum / sum of f[e] over the elements of S
SumOver(S, f) ==
    IF S = {} THEN 0
    ELSE LET e == CHOOSE x \in S : TRUE IN f[e] + SumOver(S \ {e}, f)

RECURSIVE SumSeq(_, _, _)
\* sum of x[lst[i]] for i in 1..n
SumSeq(x, lst, n) == IF n = 0 THEN 0 ELSE SumSeq(x, lst, n - 1) + x[lst[n]]

\* State equation: x[p] = M0[p] + sum_t incidence[p][t] * n[t].
StateEquation(inc, n) ==
    [p \in places |->
        to_dict(initial_marking)[p]
          + SumOver(transitions, [t \in transitions |-> inc[p][t] * n[t]])]

\* Deadlock constraints: for every transition with a preset, the tokens on
\* its listed input places sum to at most len(preset) - 1.
DeadConstraints(x) ==
    \A t \in transitions :
        Len(arcs[t].input) > 0 =>
            SumSeq(x, arcs[t].input, Len(arcs[t].input)) <= Len(arcs[t].input) - 1

\* Variant: the cut sums over the 1 places of the candidate alone.
CutHolds_OnesOnly(candidate, x) ==
    SumOver(DOMAIN candidate,
            [p \in DOMAIN candidate |->
                IF candidate[p] = 1 THEN 1 - x[p] ELSE 0]) >= 1

\* Variant: a cut that constrains nothing.
CutHolds_Vacuous(candidate, x) == TRUE

\* The canonical cut of a candidate: sum of (1 - x[p]) over its 1 places plus
\* sum of x[p] over its 0 places is at least 1.
CutHolds(candidate, x) ==
    SumOver(DOMAIN candidate,
            [p \in DOMAIN candidate |->
                IF candidate[p] = 1 THEN 1 - x[p] ELSE x[p]]) >= 1

\* The firing vectors n whose x satisfies every constraint of the problem.
FeasibleFirings(inc, cutSeq) ==
    {n \in [transitions -> 0..FiringBound] :
        LET x == StateEquation(inc, n)
        IN /\ \A p \in places : x[p] \in {0, 1}
           /\ DeadConstraints(x)
           /\ \A i \in 1..Len(cutSeq) : CutHolds(cutSeq[i], x)}

\* The candidate markings of the optimal solutions (minimal total firings).
OptimalCandidates(inc, cutSeq) ==
    LET feas == FeasibleFirings(inc, cutSeq)
        total(n) == SumOver(transitions, n)
    IN {StateEquation(inc, n) :
           n \in {m \in feas : \A k \in feas : total(m) <= total(k)}}

\* Variant: every candidate passes the reachability test.
det_is_reachable_Always(marking) == TRUE

\* Variant: no candidate passes the reachability test.
det_is_reachable_Never(marking) == FALSE

\* DeadlockDetector._is_reachable: substitute the candidate's values into the
\* reachable BDD and compare with true.
det_is_reachable(marking) ==
    {s \in Assign :
        [p \in places |-> IF p \in DOMAIN marking THEN marking[p] # 0 ELSE s[p]]
            \in TheValue(reachable_bdd)} = bdd_true

\* Variant: the test looks at the output places.
HasEmptyPreset_Output == \E t \in transitions : Len(arcs[t].output) = 0

\* The trivial enabledness check: some transition has no input place.
HasEmptyPreset == \E t \in transitions : Len(arcs[t].input) = 0

\* DeadlockDetector(net, R.reachable_bdd, R.bdd_manager).detect_deadlock() up
\* to the cutting loop: absent at once when a transition has no input place.
DetectStart ==
    /\ pc = "computed"
    /\ IF HasEmptyPreset
       THEN /\ det_result' = None
            /\ pc' = "detected"
            /\ UNCHANGED <<incidence, cuts, iteration, status, deadlocks>>
       ELSE /\ incidence' = get_incidence
            /\ cuts' = <<>>
            /\ iteration' = 0
            /\ pc' = "detect_loop"
            /\ UNCHANGED <<status, deadlocks, det_result>>
    /\ UNCHANGED <<netVars, bddVars, bfsVars, optVars, callVars>>

\* pulp's statuses of a solve.
LpStatuses == {"Optimal", "Not Solved", "Infeasible", "Unbounded", "Undefined"}

\* Variant: only an infeasible problem ends the loop.
StatusIsOptimal_NotInfeasible(st) == st # "Infeasible"

\* status != pulp.LpStatusOptimal, negated.
StatusIsOptimal(st) == st = "Optimal"

\* One pass of the cutting loop after the solve reported st and left one of
\* cands in the variables: test the candidate, return it or cut.
DetectPass(st, cands) ==
    /\ iteration' = iteration + 1
    /\ status' = st
    /\ IF ~StatusIsOptimal(st)
       THEN /\ det_result' = None
            /\ pc' = "detected"
            /\ UNCHANGED <<cuts, deadlocks>>
       ELSE \E candidate_marking \in cands :
               IF det_is_reachable(candidate_marking)
               THEN /\ deadlocks' = Append(deadlocks, Marking(candidate_marking))
                    /\ det_result' = Some(Marking(candidate_marking))
                    /\ pc' = "detected"
                    /\ UNCHANGED cuts
               ELSE /\ cuts' = Append(cuts, candidate_marking)
                    /\ UNCHANGED <<deadlocks, det_result, pc>>
    /\ UNCHANGED <<netVars, incidence, bddVars, bfsVars, optVars, callVars>>

\* One pass of the cutting loop with a solve that does its job.
DetectIter ==
    /\ pc = "detect_loop"
    /\ LET cands == OptimalCandidates(TheValue(incidence), cuts)
       IN DetectPass(IF cands = {} THEN "Infeasible" ELSE "Optimal", cands)

\* One pass of the cutting loop with a solve that gives up: it reports a
\* status other than optimal, whatever the problem is, and leaves any values
\* in the variables.
DetectIterSolverFails ==
    /\ pc = "detect_loop"
    /\ \E st \in LpStatuses \ {"Optimal"} :
          DetectPass(st, [places -> {0, 1}])

(***************************************************************************)
(* optimization/optimizer.py                                               *)
(*                                                                         *)
(* find_max_score_marking returns (marking, value, run_time); the run time *)
(* is left out.  The recursion of dfs is kept as a stack of pending calls: *)
(* the two children of a node depend on the node alone, so the call for    *)
(* p = 0 is stacked under the call for p = 1 and runs once the whole       *)
(* subtree of p = 1 has returned.  The dict `assignment` the calls share   *)
(* holds, at a leaf, exactly the values set on the path to it, so each     *)
(* pending call carries the values of its path.                            *)
(***************************************************************************)
\* The weights a mapping gives to a place.
WeightValues == {-1, 0, 1, 2}

\* The weight mappings: dicts over some of the places.
WeightMaps == UNION {[D -> WeightValues] : D \in SUBSET places}

\* Variant: the guards return the value 0 with no marking.
AbsentResult_ZeroValue == [marking |-> None, value |-> Some(0)]

\* return None, None, run_time
AbsentResult == [marking |-> None, value |-> None]

\* Variant: a place the mapping leaves out weighs 1.
weights_DefaultOne(pw) == [p \in places |-> IF p \in DOMAIN pw THEN pw[p] ELSE 1]

\* weights = {p: int(place_weights.get(p, 0)) for p in places}
weights(pw) == [p \in places |-> IF p \in DOMAIN pw THEN pw[p] ELSE 0]

\* max(w, 0)
Max0(w) == IF w > 0 THEN w ELSE 0

\* Variant: the marking keeps the places of the assignment alone.
assign_to_marking_Sparse(assign) ==
    [p \in DOMAIN assign |-> IF assign[p] THEN 1 ELSE 0]

\* {p: (1 if bool(assign.get(p, False)) else 0) for p in places}
assign_to_marking(assign) ==
    [p \in places |-> IF p \in DOMAIN assign /\ assign[p] THEN 1 ELSE 0]

\* Variant: every place counts, marked or not.
score_AllPlaces(pw, marking) ==
    SumOver(DOMAIN marking,
            [p \in DOMAIN marking |-> IF p \in DOMAIN pw THEN pw[p] ELSE 0])

\* sum(int(place_weights.get(p, 0)) for p, v in marking.items() if v)
score(pw, marking) ==
    SumOver(DOMAIN marking,
            [p \in DOMAIN marking |->
                IF marking[p] # 0 THEN (IF p \in DOMAIN pw THEN pw[p] ELSE 0)
                ELSE 0])

RECURSIVE SortedBy(_, _)
\* sorted(S, key=lambda x: (key[x], x))
SortedBy(S, key) ==
    IF S = {} THEN <<>>
    ELSE LET x == CHOOSE a \in S :
                     \A b \in S : \/ key[a] < key[b]
                                  \/ (key[a] = key[b] /\ a <= b)
         IN <<x>> \o SortedBy(S \ {x}, key)

\* order = sorted(places, key=lambda x: (-max(weights.get(x, 0), 0), x))
order(pw) == SortedBy(places, [p \in places |-> -Max0(weights(pw)[p])])

RECURSIVE suffix_pos(_, _)
\* suffix_pos[i] = suffix_pos[i + 1] + pos_weights[i], suffix_pos[n] = 0
\* (i counts from 0 as in the code).
suffix_pos(pw, i) ==
    IF i >= Len(order(pw)) THEN 0
    ELSE suffix_pos(pw, i + 1) + Max0(weights(pw)[order(pw)[i + 1]])

\* node & bdd.var(p)
and_var(node, p) == {s \in node : s[p]}

\* node & ~bdd.var(p)
and_not_var(node, p) == {s \in node : ~s[p]}

\* u & bdd.var(q) for every q of lst
and_vars(u, lst) == {s \in u : \A i \in 1..Len(lst) : s[lst[i]]}

\* sorted_places = sorted(places, key=lambda x: (-weights.get(x, 0), x))
sorted_places(pw) == SortedBy(places, [p \in places |-> -weights(pw)[p]])

RECURSIVE greedy_loop(_, _, _)
\* Greedy mode, the loop over sorted_places: st carries current_bdd and
\* chosen_positives.
greedy_loop(pw, lst, st) ==
    IF lst = <<>> THEN st
    ELSE LET p == Head(lst)
             test_bdd == and_vars(st.current_bdd, st.chosen_positives)
             test_bdd_p == and_var(test_bdd, p)
         IN greedy_loop(pw, Tail(lst),
                IF \/ weights(pw)[p] <= 0
                   \/ test_bdd = bdd_false
                   \/ test_bdd_p = bdd_false
                THEN st
                ELSE [current_bdd |-> test_bdd_p,
                      chosen_positives |-> Append(st.chosen_positives, p)])

\* Greedy mode: final_bdd, the reachable set restricted to the chosen places.
final_bdd(pw) ==
    LET st == greedy_loop(pw, sorted_places(pw),
                          [current_bdd |-> TheValue(reachable_bdd),
                           chosen_positives |-> <<>>])
        f == and_vars(TheValue(reachable_bdd), st.chosen_positives)
    IN IF f = bdd_false THEN TheValue(reachable_bdd) ELSE f

\* A weight mapping with an explicit 0 for every place it leaves out.
ExplicitZeros(pw) == [p \in places |-> IF p \in DOMAIN pw THEN pw[p] ELSE 0]

\* A weight mapping with one more entry, for the id 0, which is no place.
WithUnknownId(pw) == (0 :> 2) @@ pw

\* next(bdd.pick_iter(u)): the first assignment pick_iter yields.  Which one
\* is the library's business, but asked again about the same u it yields the
\* same one: picks remembers what it yielded.
first_pick(u) == IF u \in DOMAIN picks THEN {picks[u]} ELSE pick_iter(u)

\* The weight mappings a call may get: any mapping on the first call; on a
\* later call the mapping of the call before, that mapping with an explicit
\* 0 for every place it leaves out, or with an entry for the id 0, which is
\* no place.
CallWeights ==
    IF opt_log = <<>> THEN WeightMaps
    ELSE LET pw == opt_log[Len(opt_log)].place_weights
         IN {pw, ExplicitZeros(pw), WithUnknownId(pw)}

\* Variant: greedy mode stores its restricted set on the engine.
reachable_after_call_Stored(pw, md) ==
    IF reachable_bdd = None \/ md # "greedy" THEN reachable_bdd
    ELSE IF TheValue(reachable_bdd) = bdd_false \/ DOMAIN pw = {}
    THEN reachable_bdd
    ELSE Some(final_bdd(pw))

\* The engine's reachable_bdd after a call: the call reads it into the local
\* `reachable`, builds new nodes with & and assigns nothing to the engine.
reachable_after_call(pw, md) == reachable_bdd

\* A return of find_max_score_marking before any dfs call.
ReturnResult(pw, md, res) ==
    /\ opt_result' = res
    /\ opt_log' = Append(opt_log, [reachable |-> reachable_bdd,
                                   place_weights |-> pw, mode |-> md,
                                   result |-> res])
    /\ pc' = "optimized"
    /\ UNCHANGED <<stack, best_score, best_mark>>

\* find_max_score_marking(engine, place_weights, mode) up to the first dfs
\* call: the guards, the fast path, greedy mode, and the seed of exact mode.
\* u is not false where an assignment is picked, so there is one.
FindMaxScoreMarking ==
    /\ pc \in {"start", "initialized", "computed"}
    /\ \E pw \in CallWeights, md \in {"exact", "greedy"} :
          /\ place_weights' = pw
          /\ mode' = md
          /\ reachable_bdd' = reachable_after_call(pw, md)
          /\ IF bdd_manager = None \/ reachable_bdd = None
             THEN ReturnResult(pw, md, AbsentResult) /\ UNCHANGED picks
             ELSE IF TheValue(reachable_bdd) = bdd_false
             THEN ReturnResult(pw, md, AbsentResult) /\ UNCHANGED picks
             ELSE IF DOMAIN pw = {}
             THEN \E assign \in first_pick(TheValue(reachable_bdd)) :
                     /\ picks' = (TheValue(reachable_bdd) :> assign) @@ picks
                     /\ ReturnResult(pw, md,
                            [marking |-> Some(assign_to_marking(assign)),
                             value |-> Some(0)])
             ELSE IF md = "greedy"
             THEN \E assign \in first_pick(final_bdd(pw)) :
                     /\ picks' = (final_bdd(pw) :> assign) @@ picks
                     /\ ReturnResult(pw, md,
                            [marking |-> Some(assign_to_marking(assign)),
                             value |-> Some(score(pw, assign_to_marking(assign)))])
             ELSE \E ga \in first_pick(TheValue(reachable_bdd)) :
                     /\ picks' = (TheValue(reachable_bdd) :> ga) @@ picks
                     /\ best_score' = score(pw, assign_to_marking(ga))
                     /\ best_mark' = Some(assign_to_marking(ga))
                     /\ stack' = <<[idx |-> 0,
                                    node |-> TheValue(reachable_bdd),
                                    assignment |-> <<>>,
                                    cur_score |-> 0]>>
                     /\ pc' = "dfs"
                     /\ UNCHANGED <<opt_result, opt_log>>
    /\ UNCHANGED <<netVars, incidence, bdd_manager, transition_relation, R,
                   fixpoint_iter, extracted, bfsVars, detVars, callVars>>

\* Variant: the bound leaves out the remaining positive weights.
Pruned_NoSuffix(cur_score, remaining, best) == cur_score <= best

\* The pruning test of dfs: optimistic = cur_score + suffix_pos[idx];
\* optimistic <= best_score.
Pruned(cur_score, remaining, best) == cur_score + remaining <= best

\* assignment[p] = v on the path of a call.
assign_place(assignment, p, v) ==
    [q \in (DOMAIN assignment) \cup {p} |-> IF q = p THEN v ELSE assignment[q]]

\* One call dfs(idx, node, assignment, cur_score), up to its recursive calls.
Dfs ==
    /\ pc = "dfs"
    /\ stack # <<>>
    /\ LET f == Head(stack)
           n == Len(order(place_weights))
       IN IF Pruned(f.cur_score, suffix_pos(place_weights, f.idx), best_score)
          THEN /\ stack' = Tail(stack)
               /\ UNCHANGED <<best_score, best_mark>>
          ELSE IF f.idx = n
          THEN /\ stack' = Tail(stack)
               /\ IF f.cur_score > best_score
                  THEN /\ best_score' = f.cur_score
                       /\ best_mark' = Some(f.assignment)
                  ELSE UNCHANGED <<best_score, best_mark>>
          ELSE LET p == order(place_weights)[f.idx + 1]
                   node1 == and_var(f.node, p)
                   node0 == and_not_var(f.node, p)
                   call1 == [idx |-> f.idx + 1,
                             node |-> node1,
                             assignment |-> assign_place(f.assignment, p, 1),
                             cur_score |-> f.cur_score + weights(place_weights)[p]]
                   call0 == [idx |-> f.idx + 1,
                             node |-> node0,
                             assignment |-> assign_place(f.assignment, p, 0),
                             cur_score |-> f.cur_score]
               IN /\ stack' = (IF node1 # bdd_false THEN <<call1>> ELSE <<>>)
                              \o (IF node0 # bdd_false THEN <<call0>> ELSE <<>>)
                              \o Tail(stack)
                  /\ UNCHANGED <<best_score, best_mark>>
    /\ UNCHANGED <<netVars, incidence, bddVars, bfsVars, detVars, callVars,
                   place_weights, mode, opt_result, picks, opt_log, pc>>

\* The outermost dfs call has returned: the marking over all places and the
\* value.
DfsReturn ==
    /\ pc = "dfs"
    /\ stack = <<>>
    /\ LET res == IF best_mark = None THEN AbsentResult
                  ELSE [marking |-> Some([p \in places |->
                                             IF p \in DOMAIN TheValue(best_mark)
                                             THEN TheValue(best_mark)[p] ELSE 0]),
                        value |-> Some(best_score)]
       IN /\ opt_result' = res
          /\ opt_log' = Append(opt_log, [reachable |-> reachable_bdd,
                                         place_weights |-> place_weights,
                                         mode |-> mode, result |-> res])
    /\ pc' = "optimized"
    /\ UNCHANGED <<netVars, incidence, bddVars, bfsVars, detVars, callVars,
                   place_weights, mode, stack, best_score, best_mark, picks>>

(***************************************************************************)
(* Symbolic reachability compared with the explicit oracle.                *)
(***************************************************************************)
IdleInit ==
    /\ bdd_manager = None
    /\ transition_relation = None
    /\ reachable_bdd = None
    /\ R = {}
    /\ fixpoint_iter = 0
    /\ extracted = None
    /\ queue = <<>>
    /\ reachable_markings = {}
    /\ transition_graph = <<>>
    /\ cuts = <<>>
    /\ iteration = 0
    /\ status = ""
    /\ deadlocks = <<>>
    /\ det_result = None
    /\ place_weights = <<>>
    /\ mode = ""
    /\ stack = <<>>
    /\ best_score = 0
    /\ best_mark = None
    /\ opt_result = AbsentResult
    /\ picks = <<>>
    /\ opt_log = <<>>
    /\ cancel_token = FALSE
    /\ call = [op |-> "none", transition |-> 0, marking |-> <<>>,
               alias |-> FALSE,
                      other |-> <<>>, args |-> <<>>]
    /\ ret = [raised |-> "", value |-> None, obj |-> "none", arg |-> <<>>]
    /\ pc = "start"

Init == NetInit(1, MaxArcs) /\ IdleInit

Next ==
    \/ InitializeBdd
    \/ ComputeStart
    \/ FixpointIter
    \/ ExtractMarkings
    \/ BfsStart
    \/ BfsStep
    \/ BfsReturn

Spec == Init /\ [][Next]_vars

\* The two analyses run in one thread with nothing to wait for: a loop that
\* can make its next pass makes it.
\* Weak fairness of BfsStep is written out, with ENABLED <<BfsStep>>_vars as
\* the guard of BfsStep: a pass takes the head off the queue and appends
\* markings that are not in it, so it always changes the queue.
BfsStepEnabled == pc = "bfs" /\ queue # <<>>

SpecFair ==
    /\ Spec
    /\ WF_vars(FixpointIter)
    /\ WF_vars(BfsReturn)
    /\ ([]<>(~BfsStepEnabled) \/ []<><<BfsStep>>_vars)

(***************************************************************************)
(* Deadlock detection after symbolic reachability (run_deadlock_detection).*)
(***************************************************************************)
InitDetect == NetInit(2, MaxArcs) /\ IdleInit

NextDetect ==
    \/ ComputeStart
    \/ FixpointIter
    \/ DetectStart
    \/ DetectIter

SpecDetect == InitDetect /\ [][NextDetect]_vars

(***************************************************************************)
(* Deadlock detection on nets with more arcs and no arc listed twice: the  *)
(* state equation of such a net has solutions no firing sequence reaches,  *)
(* and the loop cuts several candidates in one run.                        *)
(***************************************************************************)
InitCuts == NetInit(1, MaxArcs + 2) /\ IdleInit

SpecCuts == InitCuts /\ [][NextDetect]_vars

(***************************************************************************)
(* Deadlock detection with a solver that may give up on any solve.         *)
(***************************************************************************)
InitSolver == NetInit(2, MaxArcs) /\ IdleInit

NextSolver ==
    \/ ComputeStart
    \/ FixpointIter
    \/ DetectStart
    \/ DetectIter
    \/ DetectIterSolverFails

SpecSolver == InitSolver /\ [][NextSolver]_vars

(***************************************************************************)
(* Optimization after symbolic reachability (run_optimization).            *)
(***************************************************************************)
InitOpt == NetInit(1, MaxArcs - 2) /\ IdleInit

NextOpt ==
    \/ InitializeBdd
    \/ ComputeStart
    \/ FixpointIter
    \/ FindMaxScoreMarking
    \/ Dfs
    \/ DfsReturn

SpecOpt == InitOpt /\ [][NextOpt]_vars

(***************************************************************************)
(* Membership queries on an engine, at any time of its life.               *)
(***************************************************************************)
InitQuery == NetInit(1, MaxArcs - 1) /\ IdleInit

NextQuery ==
    \/ InitializeBdd
    \/ ComputeStart
    \/ FixpointIter
    \/ CallIsReachable

SpecQuery == InitQuery /\ [][NextQuery]_vars

(***************************************************************************)
(* Several consumers on one engine (run_compare): after a detector or      *)
(* optimizer call has returned, the caller makes its next call.            *)
(***************************************************************************)
MaxCalls == 2

\* The caller is back where the engine stands and makes another call, while
\* fewer than MaxCalls results were collected.
NextCall ==
    /\ pc \in {"detected", "optimized"}
    /\ Len(opt_log) + Len(deadlocks) < MaxCalls
    /\ pc' = IF bdd_manager = None THEN "start"
             ELSE IF TheValue(reachable_bdd) = bdd_false THEN "initialized"
             ELSE "computed"
    /\ UNCHANGED <<netVars, incidence, bddVars, bfsVars, detVars, optVars, callVars>>

\* The nets of this family have fewer places, to leave room for the calls.
CallPlaces == NumPlaces - 1

InitCalls ==
    /\ NetInit(1, MaxArcs - 2)
    /\ Cardinality(places) <= CallPlaces
    /\ IdleInit

NextCalls ==
    \/ ComputeStart
    \/ FixpointIter
    \/ DetectStart
    \/ DetectIter
    \/ FindMaxScoreMarking
    \/ Dfs
    \/ DfsReturn
    \/ NextCall

SpecCalls == InitCalls /\ [][NextCalls]_vars

(***************************************************************************)
(* A caller that wants a running analysis to stop.  compute_symbolic_-     *)
(* reachability(initial_marking), detect_deadlock() and                    *)
(* find_max_score_marking(engine, place_weights, mode) take no token and   *)
(* read no flag in their loops: the token is the caller's own.             *)
(***************************************************************************)
\* The caller sets its token while a loop runs.
Cancel ==
    /\ pc \in {"fixpoint", "detect_loop", "dfs"}
    /\ ~cancel_token
    /\ cancel_token' = TRUE
    /\ UNCHANGED <<netVars, incidence, bddVars, bfsVars, detVars, optVars,
                   call, ret, pc>>

InitCancel ==
    /\ NetInit(1, MaxArcs - 2)
    /\ Cardinality(places) <= CallPlaces
    /\ IdleInit

NextCancel ==
    \/ ComputeStart
    \/ FixpointIter
    \/ DetectStart
    \/ DetectIter
    \/ FindMaxScoreMarking
    \/ Dfs
    \/ DfsReturn
    \/ Cancel

SpecCancel == InitCancel /\ [][NextCancel]_vars

(***************************************************************************)
(* Calls of the net operations on a built net.  The marking passed is the  *)
(* initial marking or a sparse dict of it (entries that are 0 left out);   *)
(* the transition id is one of the net's or an unknown one.                *)
(***************************************************************************)
CallMarkings ==
    {[p \in D |-> initial_marking[p]] :
        D \in {E \in SUBSET places : \A p \in places \ E : ~initial_marking[p]}}

CallTransitionIds == TransitionIds \cup {t + 1 : t \in TransitionIds}

\* net.fire_transition(t, m); with alias the object passed is
\* net.initial_marking itself, else a marking or dict of the caller.
CallFireTransition ==
    /\ pc = "start"
    /\ \E t \in CallTransitionIds, m \in CallMarkings, alias \in BOOLEAN :
          /\ alias => m = initial_marking
          /\ call' = [op |-> "fire_transition", transition |-> t,
                      marking |-> m, alias |-> alias,
                      other |-> <<>>, args |-> <<>>]
          /\ ret' = fire_transition(t, m)
          /\ initial_marking' = IF alias THEN fire_transition(t, m).arg
                                 ELSE initial_marking
    /\ pc' = "called"
    /\ UNCHANGED <<places, transitions, arcs, incidence, bddVars, bfsVars,
                   detVars, optVars, cancel_token>>

\* net.is_enabled(t, m)
CallIsEnabled ==
    /\ pc = "start"
    /\ \E t \in CallTransitionIds, m \in CallMarkings :
          /\ call' = [op |-> "is_enabled", transition |-> t, marking |-> m,
                      alias |-> FALSE,
                      other |-> <<>>, args |-> <<>>]
          /\ ret' = is_enabled_call(t, m)
    /\ pc' = "called"
    /\ UNCHANGED <<netVars, incidence, bddVars, bfsVars, detVars, optVars, cancel_token>>

\* net.get_enabled_transitions(m)
CallGetEnabledTransitions ==
    /\ pc = "start"
    /\ \E m \in CallMarkings :
          /\ call' = [op |-> "get_enabled_transitions", transition |-> 0,
                      marking |-> m, alias |-> FALSE,
                      other |-> <<>>, args |-> <<>>]
          /\ ret' = get_enabled_transitions_call(m)
    /\ pc' = "called"
    /\ UNCHANGED <<netVars, incidence, bddVars, bfsVars, detVars, optVars, cancel_token>>

\* net.get_incidence()
CallGetIncidence ==
    /\ pc = "start"
    /\ call' = [op |-> "get_incidence", transition |-> 0, marking |-> <<>>,
                alias |-> FALSE, other |-> <<>>, args |-> <<>>]
    /\ incidence' = get_incidence
    /\ ret' = [raised |-> "", value |-> get_incidence, obj |-> "none",
               arg |-> <<>>]
    /\ pc' = "called"
    /\ UNCHANGED <<netVars, bddVars, bfsVars, detVars, optVars, cancel_token>>

InitNetOps == NetInit(2, MaxArcs - 1) /\ IdleInit

NextNetOps ==
    \/ CallFireTransition
    \/ CallIsEnabled
    \/ CallGetEnabledTransitions
    \/ CallGetIncidence

SpecNetOps == InitNetOps /\ [][NextNetOps]_vars

(***************************************************************************)
(* Building a net: add_place, add_transition and add_arc calls on a net    *)
(* that starts empty, with ids of places, of transitions and an id that is *)
(* never declared, and validate_consistency at any point.                  *)
(***************************************************************************)
\* The arcs a net under construction may hold.
BuildArcs == MaxArcs - 2

\* The ids add_arc is called with; 0 is never declared.
ArcEndIds == (0..NumPlaces) \cup TransitionIds

\* The number of arcs of the net.
ArcCount ==
    SumOver(DOMAIN arcs,
            [t \in DOMAIN arcs |-> Len(arcs[t].input) + Len(arcs[t].output)])

\* The net takes the fields an operation left, the caller its error.
ApplyNetOp(r) ==
    /\ places' = r.places
    /\ transitions' = r.transitions
    /\ arcs' = r.arcs
    /\ initial_marking' = r.initial_marking
    /\ ret' = [raised |-> r.raised, value |-> None, obj |-> "none",
               arg |-> <<>>]

\* net.add_place(place_id, has_token)
AddPlace ==
    /\ pc = "start"
    /\ \E place_id \in 1..NumPlaces, tok \in BOOLEAN :
          /\ call' = [op |-> "add_place", transition |-> 0, marking |-> <<>>,
                      alias |-> FALSE, other |-> <<>>,
                      args |-> <<place_id, tok>>]
          /\ ApplyNetOp(add_place(place_id, tok))
    /\ UNCHANGED <<incidence, bddVars, bfsVars, detVars, optVars, cancel_token, pc>>

\* net.add_transition(transition_id)
AddTransition ==
    /\ pc = "start"
    /\ \E transition_id \in TransitionIds :
          /\ call' = [op |-> "add_transition", transition |-> 0,
                      marking |-> <<>>, alias |-> FALSE, other |-> <<>>,
                      args |-> <<transition_id>>]
          /\ ApplyNetOp(add_transition(transition_id))
    /\ UNCHANGED <<incidence, bddVars, bfsVars, detVars, optVars, cancel_token, pc>>

\* net.add_arc(source, target)
AddArc ==
    /\ pc = "start"
    /\ ArcCount < BuildArcs
    /\ \E source \in ArcEndIds, target \in ArcEndIds :
          /\ call' = [op |-> "add_arc", transition |-> 0, marking |-> <<>>,
                      alias |-> FALSE, other |-> <<>>,
                      args |-> <<source, target>>]
          /\ ApplyNetOp(add_arc(source, target))
    /\ UNCHANGED <<incidence, bddVars, bfsVars, detVars, optVars, cancel_token, pc>>

\* net.validate_consistency()
ValidateConsistency ==
    /\ pc = "start"
    /\ call' = [op |-> "validate_consistency", transition |-> 0,
                marking |-> <<>>, alias |-> FALSE, other |-> <<>>,
                args |-> <<>>]
    /\ ret' = [raised |-> "",
               value |-> Some([ok |-> validate_consistency.ok,
                               errors |-> validate_consistency.errors]),
               obj |-> "new", arg |-> <<>>]
    /\ initial_marking' = validate_consistency.initial_marking
    /\ UNCHANGED <<places, transitions, arcs, incidence, bddVars, bfsVars,
                   detVars, optVars, cancel_token, pc>>

\* PetriNet()
InitBuild ==
    /\ places = {}
    /\ transitions = {}
    /\ arcs = <<>>
    /\ initial_marking = Marking(<<>>)
    /\ incidence = None
    /\ IdleInit

NextBuild ==
    \/ AddPlace
    \/ AddTransition
    \/ AddArc
    \/ ValidateConsistency

SpecBuild == InitBuild /\ [][NextBuild]_vars

(***************************************************************************)
(* The construction of a net with get_incidence called along the way.      *)
(***************************************************************************)
\* net.get_incidence() on the net as built so far.
GetIncidence ==
    /\ pc = "start"
    /\ call' = [op |-> "get_incidence", transition |-> 0, marking |-> <<>>,
                alias |-> FALSE, other |-> <<>>, args |-> <<>>]
    /\ incidence' = get_incidence
    /\ ret' = [raised |-> "", value |-> get_incidence, obj |-> "none",
               arg |-> <<>>]
    /\ UNCHANGED <<netVars, bddVars, bfsVars, detVars, optVars, cancel_token,
                   pc>>

NextCache ==
    \/ AddPlace
    \/ AddTransition
    \/ AddArc
    \/ GetIncidence

SpecCache == InitBuild /\ [][NextCache]_vars

(***************************************************************************)
(* Calls of the Marking operations on markings over some of the places.    *)
(***************************************************************************)
\* Marking(d) for the dicts d over some of the places.
PartialMarkings == UNION {[D -> BOOLEAN] : D \in SUBSET places}

\* The orders of the places: the lists that name every place once.
PlaceOrders ==
    {o \in [1..Cardinality(places) -> places] :
        \A i, j \in DOMAIN o : o[i] = o[j] => i = j}

\* a == b, and b in {a}
CallEq ==
    /\ pc = "start"
    /\ \E a \in PartialMarkings, b \in PartialMarkings :
          /\ call' = [op |-> "eq", transition |-> 0, marking |-> a,
                      alias |-> FALSE, other |-> b, args |-> <<>>]
          /\ ret' = [raised |-> "",
                     value |-> Some([eq |-> marking_eq(a, b),
                                     in_set |-> in_set_of(a, b)]),
                     obj |-> "none", arg |-> a]
    /\ pc' = "called"
    /\ UNCHANGED <<netVars, incidence, bddVars, bfsVars, detVars, optVars, cancel_token>>

\* Marking.from_vector(m.to_vector(order), order)
CallVectorRoundTrip ==
    /\ pc = "start"
    /\ \E m \in PartialMarkings, places_list \in PlaceOrders :
          /\ call' = [op |-> "round_trip", transition |-> 0, marking |-> m,
                      alias |-> FALSE, other |-> <<>>, args |-> places_list]
          /\ LET r == from_vector(to_vector(m, places_list), places_list)
             IN ret' = [raised |-> r.raised, value |-> r.value,
                        obj |-> "new", arg |-> m]
    /\ pc' = "called"
    /\ UNCHANGED <<netVars, incidence, bddVars, bfsVars, detVars, optVars, cancel_token>>

InitMarking == NetInit(1, 0) /\ IdleInit

NextMarking ==
    \/ CallEq
    \/ CallVectorRoundTrip

SpecMarking == InitMarking /\ [][NextMarking]_vars

(***************************************************************************)
(* Properties of the net operations.                                       *)
(***************************************************************************)
pre(t) == SeqToSet(arcs[t].input)
post_places(t) == SeqToSet(arcs[t].output)

\* C9: firing an enabled transition returns M' with every place of post(t)
\* marked (self-loop places included), every place of pre(t) \ post(t)
\* unmarked, and every other place as in M.
C9_FireResult ==
    (/\ call.op = "fire_transition"
     /\ call.transition \in transitions
     /\ is_enabled(call.transition, call.marking))
    => /\ ret.raised = ""
       /\ ret.value # None
       /\ LET t == call.transition
              M == call.marking
              Mp == TheValue(ret.value)
          IN \A p \in 1..NumPlaces :
                /\ p \in post_places(t) => (p \in DOMAIN Mp /\ Mp[p])
                /\ p \in pre(t) \ post_places(t) => (p \in DOMAIN Mp /\ ~Mp[p])
                /\ p \notin pre(t) \cup post_places(t) =>
                      /\ (p \in DOMAIN Mp) = (p \in DOMAIN M)
                      /\ has_token(Mp, p) = has_token(M, p)

\* An enabled transition with a self-loop place and a consumed place has
\* fired, on a marking with another marked place.
C9_Witness ==
    /\ call.op = "fire_transition"
    /\ call.transition \in transitions
    /\ ret.raised = ""
    /\ pre(call.transition) \cap post_places(call.transition) # {}
    /\ pre(call.transition) \ post_places(call.transition) # {}
    /\ \E p \in places \ (pre(call.transition) \cup post_places(call.transition)) :
          has_token(call.marking, p)

\* C10: fire_transition raises and returns no marking when t is not enabled
\* at M or is not a transition of the net; is_enabled raises for an unknown
\* transition id.
C10_FireErrors ==
    /\ (/\ call.op = "fire_transition"
        /\ \/ call.transition \notin transitions
           \/ ~AllInputsMarked(call.transition, call.marking))
       => (ret.raised # "" /\ ret.value = None)
    /\ (call.op = "is_enabled" /\ call.transition \notin transitions)
       => (ret.raised # "" /\ ret.value = None)

\* A disabled transition of the net was fired and the call raised.
C10_Witness ==
    /\ call.op = "fire_transition"
    /\ call.transition \in transitions
    /\ ~AllInputsMarked(call.transition, call.marking)
    /\ ret.raised = "ValueError: not enabled"

\* C11: firing never modifies the marking it is given: after
\* fire_transition(t, M), whether it returns or raises, the argument (and the
\* net's initial marking when that is the argument) has the entries it had
\* before the call, and a returned marking is an object of its own.
C11_FireFrame ==
    call.op = "fire_transition" =>
        /\ ret.arg = call.marking
        /\ call.alias => initial_marking = call.marking
        /\ ret.raised = "" => ret.obj = "new"

\* A transition was fired on the net's own initial marking and returned a
\* marking that differs from it.
C11_Witness ==
    /\ call.op = "fire_transition"
    /\ call.alias
    /\ ret.raised = ""
    /\ TheValue(ret.value) # call.marking

\* The places of pre(t) are all marked in M (an absent place is unmarked).
PresetMarked(t, M) == \A p \in pre(t) : p \in DOMAIN M /\ M[p]

C13_FiringConservation ==
    (/\ call.op = "fire_transition"
     /\ ret.raised = ""
     /\ \A p \in post_places(call.transition) \ pre(call.transition) :
            ~has_token(call.marking, p))
    => total_tokens(TheValue(ret.value)) - total_tokens(call.marking)
         = Cardinality(post_places(call.transition) \ pre(call.transition))
           - Cardinality(pre(call.transition) \ post_places(call.transition))

\* A firing that changed the token count, from a marking given as a dict
\* without its 0 entries.
C13_Witness ==
    /\ call.op = "fire_transition"
    /\ ret.raised = ""
    /\ \A p \in post_places(call.transition) \ pre(call.transition) :
           ~has_token(call.marking, p)
    /\ DOMAIN call.marking # places
    /\ total_tokens(TheValue(ret.value)) # total_tokens(call.marking)
    /\ pre(call.transition) \cap post_places(call.transition) # {}

\* C16: get_incidence returns C with C[p][t] = 1[p in post(t)] - 1[p in
\* pre(t)]: every entry is in {-1, 0, 1}, a self-loop place gives 0, and a
\* place listed more than once in pre(t) or post(t) counts once.
C16_Incidence ==
    call.op = "get_incidence" =>
        /\ ret.value # None
        /\ \A p \in places, t \in transitions :
              TheValue(ret.value)[p][t]
                = (IF p \in post_places(t) THEN 1 ELSE 0)
                  - (IF p \in pre(t) THEN 1 ELSE 0)

(***************************************************************************)
(* Properties of the construction of a net.                                *)
(***************************************************************************)
\* C17: add_place with an id already in the place set, and add_transition
\* with an id already in the transition set, raise and leave places,
\* transitions, flow and initial marking as they were.
C17_DuplicateRejected ==
    [][/\ (call'.op = "add_place" /\ call'.args[1] \in places)
             => (ret'.raised # "" /\ UNCHANGED netVars)
       /\ (call'.op = "add_transition" /\ call'.args[1] \in transitions)
             => (ret'.raised # "" /\ UNCHANGED netVars)]_vars

\* add_place was rejected for a place whose recorded token state is not the
\* one the call asked for, on a net that has an arc.
C17_Witness ==
    /\ call.op = "add_place"
    /\ ret.raised # ""
    /\ initial_marking[call.args[1]] # call.args[2]
    /\ ArcCount > 0

\* C18: add_arc(src, dst) records an input arc when src is a place and dst a
\* transition, an output arc when src is a transition and dst a place, and
\* in every other case raises and leaves the flow relation unchanged.
C18_AddArc ==
    [][call'.op = "add_arc" =>
          LET src == call'.args[1]
              dst == call'.args[2]
          IN IF src \in places /\ dst \in transitions
             THEN /\ ret'.raised = ""
                  /\ arcs' = [arcs EXCEPT ![dst].input = Append(@, src)]
             ELSE IF src \in transitions /\ dst \in places
             THEN /\ ret'.raised = ""
                  /\ arcs' = [arcs EXCEPT ![src].output = Append(@, dst)]
             ELSE /\ ret'.raised # ""
                  /\ arcs' = arcs]_vars

\* A place-to-place arc was rejected on a net that has an arc, after an arc
\* was recorded.
C18_Witness ==
    /\ call.op = "add_arc"
    /\ ret.raised # ""
    /\ call.args[1] \in places
    /\ call.args[2] \in places
    /\ ArcCount > 0

\* C19: net well-formedness after any sequence of add_place, add_transition
\* and add_arc calls: every place of a pre(t) or post(t) is in the place
\* set, every flow entry belongs to a declared transition, the initial
\* marking has an entry for every place, and validate_consistency returns
\* (True, []).
C19_WellFormed ==
    /\ \A t \in DOMAIN arcs :
          /\ t \in transitions
          /\ \A i \in 1..Len(arcs[t].input) : arcs[t].input[i] \in places
          /\ \A i \in 1..Len(arcs[t].output) : arcs[t].output[i] \in places
    /\ \A p \in places : p \in DOMAIN initial_marking
    /\ validate_consistency.ok
    /\ validate_consistency.errors = {}
    /\ call.op = "validate_consistency"
          => ret.value = Some([ok |-> TRUE, errors |-> {}])

\* validate_consistency was called on a net with an input arc and an output
\* arc.
C19_Witness ==
    /\ call.op = "validate_consistency"
    /\ \E t \in transitions : Len(arcs[t].input) > 0
    /\ \E t \in transitions : Len(arcs[t].output) > 0

(***************************************************************************)
(* Properties of the Marking operations.                                   *)
(***************************************************************************)
\* The token of place p in M, an absent place counting as 0.
Tok(M, p) == IF p \in DOMAIN M /\ M[p] THEN 1 ELSE 0

\* M1 and M2 agree on every place.
AgreeOnEveryPlace(M1, M2) == \A p \in places : Tok(M1, p) = Tok(M2, p)

\* C14: marking equality is value equality with an absent place counting as
\* 0: two markings are equal iff they agree on every place, and as keys of a
\* visited set they are then the same key.
C14_MarkingEquality ==
    call.op = "eq" =>
        /\ TheValue(ret.value).eq = AgreeOnEveryPlace(call.marking, call.other)
        /\ TheValue(ret.value).in_set
              = AgreeOnEveryPlace(call.marking, call.other)

\* C15: vector round trip: from_vector(to_vector(M, order), order) equals M
\* for every marking M and every order of the places.
C15_VectorRoundTrip ==
    call.op = "round_trip" =>
        /\ ret.raised = ""
        /\ ret.value # None
        /\ marking_eq(TheValue(ret.value), call.marking)

(***************************************************************************)
(* Properties of the symbolic engine and the oracle.                       *)
(***************************************************************************)
\* compute_symbolic_reachability has returned.
ComputeFinished == pc \notin {"start", "initialized", "fixpoint"}

\* The reachable set as the engine holds it.
ReachableSet == TheValue(reachable_bdd)

\* C1: reachability agreement: once both analyses have run, the markings
\* extract_markings returned are exactly the markings the BFS reached.
C1_ReachabilityAgreement ==
    pc = "done" => TheValue(extracted) = reachable_markings

\* C5: transition-relation soundness: a pair of total markings (M, M')
\* satisfies T iff some transition is enabled at M and firing it gives M'.
C5_TransitionRelationSound ==
    transition_relation # None =>
        \A s \in Assign, sp \in Assign :
            (<<s, sp>> \in TheValue(transition_relation))
            <=> (\E t \in transitions :
                    /\ is_enabled(t, s)
                    /\ fire_transition(t, s).value = Some(sp))

\* T is built for a net with a self-loop place, and relates two different
\* markings.
C5_Witness ==
    /\ transition_relation # None
    /\ \E t \in transitions :
          /\ SeqToSet(trans_in(t)) \cap SeqToSet(trans_out(t)) # {}
          /\ \E pr \in transition_bdd(t) : pr[1] # pr[2]

\* C6: closure: after the fixpoint, firing any transition enabled at a
\* marking of R gives a marking of R.
C6_Closure ==
    ComputeFinished =>
        \A M \in ReachableSet :
            \A t \in get_enabled_transitions(M) :
                fire_transition(t, M).value \subseteq ReachableSet

\* The fixpoint has finished with at least three markings, the last of them
\* found in a later iteration than the second.
C6_Witness ==
    /\ ComputeFinished
    /\ Cardinality(ReachableSet) >= 3
    /\ \E M \in ReachableSet :
          M \notin encode_marking(initial_marking) \cup post(encode_marking(initial_marking))

\* C7: initial membership: the set extract_markings returns contains M0.
C7_InitialMembership ==
    extracted # None => initial_marking \in TheValue(extracted)

(***************************************************************************)
(* Properties of the deadlock detector.                                    *)
(***************************************************************************)
\* No transition is enabled at M.
Dead(M) == \A t \in transitions : ~AllInputsMarked(t, M)

\* Firing never puts a token on a marked place: the net is 1-safe.
OneSafe ==
    \A M \in ReachableSet :
        \A t \in transitions :
            AllInputsMarked(t, M) =>
                \A p \in post_places(t) \ pre(t) : ~M[p]

\* C2: detector soundness: a returned marking is in R and no transition is
\* enabled at it.
C2_DetectorSound ==
    (pc = "detected" /\ det_result # None) =>
        /\ TheValue(det_result) \in ReachableSet
        /\ Dead(TheValue(det_result))

\* The detector returned a deadlock other than the initial marking.
C2_Witness ==
    /\ pc = "detected"
    /\ det_result # None
    /\ TheValue(det_result) # initial_marking

\* C3: detector completeness: on a 1-safe net with a reachable dead marking
\* the detector returns a marking.
C3_DetectorComplete ==
    (/\ pc = "detected"
     /\ OneSafe
     /\ \E M \in ReachableSet : Dead(M))
    => det_result # None

C8_DetectorTerminates ==
    /\ iteration <= Pow2(Cardinality(places))
    /\ (pc = "detected" /\ iteration > 0) =>
          \/ /\ det_result # None
             /\ status = "Optimal"
             /\ TheValue(det_result) \in ReachableSet
             /\ Dead(TheValue(det_result))
          \/ /\ det_result = None
             /\ status = "Infeasible"

\* The loop ended after cutting a candidate.
C8_Witness ==
    /\ pc = "detected"
    /\ iteration >= 2
    /\ Len(cuts) >= 1

(***************************************************************************)
(* Properties of the optimizer.                                            *)
(***************************************************************************)
\* w . M for a weight mapping w (missing weights are 0) and a marking M with
\* values 0/1.
Dot(w, M) ==
    SumOver(places,
            [p \in places |-> (IF p \in DOMAIN w THEN w[p] ELSE 0) * M[p]])

\* find_max_score_marking has returned, R being non-empty.
OptimizedOnNonEmpty(md) ==
    /\ pc = "optimized"
    /\ mode = md
    /\ reachable_bdd # None
    /\ ReachableSet # bdd_false

\* C4: optimizer optimality: in exact mode, for every weight mapping and
\* non-empty R, the call returns (M, v) with M in R, v = w . M and
\* v = max {w . M' : M' in R}.
C4_OptimizerOptimal ==
    OptimizedOnNonEmpty("exact") =>
        /\ opt_result.marking # None
        /\ opt_result.value # None
        /\ LET M == TheValue(opt_result.marking)
               v == TheValue(opt_result.value)
           IN /\ DOMAIN M = places
              /\ [p \in places |-> M[p] = 1] \in ReachableSet
              /\ v = Dot(place_weights, M)
              /\ \A Mp \in ReachableSet : Dot(place_weights, to_dict(Mp)) <= v

\* Exact mode has returned for a reachable set of three or more markings and
\* a mapping with a negative, a positive and a missing weight, with a value
\* above that of the initial marking.
C4_Witness ==
    /\ OptimizedOnNonEmpty("exact")
    /\ Cardinality(ReachableSet) >= 3
    /\ \E p \in DOMAIN place_weights : place_weights[p] < 0
    /\ \E p \in DOMAIN place_weights : place_weights[p] > 0
    /\ DOMAIN place_weights # places
    /\ opt_result.value # None
    /\ TheValue(opt_result.value) > Dot(place_weights, to_dict(initial_marking))

\* C21: empty-weights identity: with an empty weight mapping and a non-empty
\* R, the call returns a marking of R, total over the places, and the value 0.
C21_EmptyWeightsIdentity ==
    (/\ pc = "optimized"
     /\ reachable_bdd # None
     /\ DOMAIN place_weights = {}) =>
        (ReachableSet # bdd_false =>
            /\ opt_result.value = Some(0)
            /\ opt_result.marking # None
            /\ DOMAIN TheValue(opt_result.marking) = places
            /\ [p \in places |-> TheValue(opt_result.marking)[p] = 1]
                   \in ReachableSet)

\* The empty mapping was given, R has several markings, and the marking
\* returned is another one than the initial marking.
C21_Witness ==
    /\ pc = "optimized"
    /\ reachable_bdd # None
    /\ DOMAIN place_weights = {}
    /\ Cardinality(ReachableSet) >= 2
    /\ opt_result.marking # None
    /\ TheValue(opt_result.marking) # to_dict(initial_marking)

\* C22: when the engine was never initialized, R was never computed, or R is
\* empty, the call returns absent (no marking, no value) whatever the weight
\* mapping is.  A call has no other way out: its body sits in a try whose
\* handler returns absent as well.
C22_AbsentWithoutReachableSet ==
    (/\ pc = "optimized"
     /\ \/ bdd_manager = None
        \/ reachable_bdd = None
        \/ ReachableSet = bdd_false) =>
        /\ opt_result.marking = None
        /\ opt_result.value = None

\* A call with weights on an engine that was initialized and never computed.
C22_Witness ==
    /\ pc = "optimized"
    /\ bdd_manager # None
    /\ reachable_bdd = Some(bdd_false)
    /\ \E p \in DOMAIN place_weights : place_weights[p] > 0
    /\ opt_result.marking = None
    /\ opt_result.value = None

\* Calls i and j of the log ran on the same reachable set.
SameEngine(i, j) == opt_log[i].reachable = opt_log[j].reachable

\* C23: missing weights default to 0: a call returns the same value for a
\* mapping w as for w with an explicit 0 for every place w leaves out, and
\* as for w with an entry for an id that is no place.
C23_MissingWeightsDefaultZero ==
    \A i, j \in 1..Len(opt_log) :
        (/\ i < j
         /\ SameEngine(i, j)
         /\ opt_log[i].mode = opt_log[j].mode
         /\ \/ opt_log[j].place_weights = ExplicitZeros(opt_log[i].place_weights)
            \/ opt_log[j].place_weights = WithUnknownId(opt_log[i].place_weights))
        => opt_log[i].result.value = opt_log[j].result.value

\* A mapping that leaves places out and weighs a place positively, then the
\* same mapping with its zeros written out, both with a positive value.
C23_Witness ==
    /\ pc = "optimized"
    /\ Len(opt_log) = 2
    /\ SameEngine(1, 2)
    /\ opt_log[1].mode = opt_log[2].mode
    /\ opt_log[2].place_weights = ExplicitZeros(opt_log[1].place_weights)
    /\ DOMAIN opt_log[1].place_weights # places
    /\ opt_log[1].result.value # None
    /\ TheValue(opt_log[1].result.value) > 0

\* A step of a detector or optimizer call, or of the caller between calls.
ConsumerStep ==
    \/ pc \in {"detect_loop", "detected", "dfs", "optimized"}
    \/ pc' \in {"detect_loop", "detected", "dfs", "optimized"}

\* C25: the detector and the optimizer do not mutate R: over every step of
\* their calls, in any order and mode, is_reachable answers the same for
\* every marking, and the transition relation is the same.
C25_ConsumersLeaveEngine ==
    [][ConsumerStep =>
          /\ transition_relation' = transition_relation
          /\ reachable_bdd' = reachable_bdd
          /\ reachable_bdd # None =>
                \A M \in Assign : is_reachable(M)' = is_reachable(M)]_vars

\* An optimizer call in greedy mode that chose a place, after a detector call
\* that found a deadlock, on a reachable set of several markings.
C25_Witness ==
    /\ pc = "optimized"
    /\ mode = "greedy"
    /\ deadlocks # <<>>
    /\ reachable_bdd # None
    /\ Cardinality(ReachableSet) >= 2
    /\ opt_result.value # None
    /\ TheValue(opt_result.value) > 0

\* C28: greedy mode returns a marking M of R with the value w . M, and the
\* value is never greater than the one exact mode returns for the same
\* inputs.
C28_GreedyBelowExact ==
    /\ OptimizedOnNonEmpty("greedy") =>
          /\ opt_result.marking # None
          /\ opt_result.value # None
          /\ LET M == TheValue(opt_result.marking)
             IN /\ [p \in places |-> M[p] = 1] \in ReachableSet
                /\ TheValue(opt_result.value) = Dot(place_weights, M)
    /\ \A i, j \in 1..Len(opt_log) :
          (/\ SameEngine(i, j)
           /\ opt_log[i].place_weights = opt_log[j].place_weights
           /\ opt_log[i].mode = "greedy"
           /\ opt_log[j].mode = "exact"
           /\ opt_log[i].result.value # None)
          => /\ opt_log[j].result.value # None
             /\ TheValue(opt_log[i].result.value)
                    <= TheValue(opt_log[j].result.value)

\* Greedy mode and exact mode ran on the same inputs, and greedy mode
\* returned the smaller value.
C28_Witness ==
    /\ pc = "optimized"
    /\ Len(opt_log) = 2
    /\ SameEngine(1, 2)
    /\ opt_log[1].place_weights = opt_log[2].place_weights
    /\ opt_log[1].mode = "greedy"
    /\ opt_log[2].mode = "exact"
    /\ opt_log[1].result.value # None
    /\ opt_log[2].result.value # None
    /\ TheValue(opt_log[1].result.value) < TheValue(opt_log[2].result.value)

\* C24: a call of is_reachable(M) before compute_symbolic_reachability has
\* completed yields the error EngineNotComputed, no true or false, and
\* leaves the engine as it is.  A step that writes call or ret is a call.
C24_QueryBeforeCompute ==
    [][(/\ call'.op = "is_reachable"
        /\ call' # call \/ ret' # ret
        /\ pc \in {"start", "initialized"}) =>
          /\ ret'.raised = "EngineNotComputed"
          /\ ret'.value = None
          /\ UNCHANGED <<bdd_manager, transition_relation, reachable_bdd>>]_vars

\* C26: when the solver reports a status other than optimal at any pass,
\* detect_deadlock returns absent and records no deadlock; a marking it
\* returns has passed the reachability check after an optimal solve.
C26_NonOptimalIsAbsent ==
    /\ (pc = "detected" /\ status # "Optimal") =>
          /\ det_result = None
          /\ deadlocks = <<>>
    /\ (pc = "detected" /\ det_result # None) =>
          /\ status = "Optimal"
          /\ det_is_reachable(to_dict(TheValue(det_result)))
          /\ deadlocks = <<TheValue(det_result)>>

\* The solver gave up on a later pass, after a candidate was cut, on a net
\* that has a reachable dead marking.
C26_Witness ==
    /\ pc = "detected"
    /\ status \in {"Not Solved", "Unbounded", "Undefined"}
    /\ iteration >= 2
    /\ cuts # <<>>
    /\ \E M \in ReachableSet : Dead(M)
    /\ det_result = None

\* C27: after compute_reachability(M0) the keys of transition_graph are
\* exactly the reached markings, and transition_graph[M] maps exactly the
\* transitions enabled at M, each to fire_transition(t, M), which is a
\* reached marking.
C27_TransitionGraph ==
    pc = "done" =>
        /\ DOMAIN transition_graph = reachable_markings
        /\ \A M \in reachable_markings :
              /\ DOMAIN transition_graph[M] = get_enabled_transitions(M)
              /\ \A t \in DOMAIN transition_graph[M] :
                    /\ fire_transition(t, M).raised = ""
                    /\ transition_graph[M][t] = TheValue(fire_transition(t, M).value)
                    /\ transition_graph[M][t] \in reachable_markings

\* The search is over, and some reached marking has two enabled transitions
\* that lead to two markings, while another has none.
C27_Witness ==
    /\ pc = "done"
    /\ \E M \in reachable_markings :
          /\ Cardinality(DOMAIN transition_graph[M]) = 2
          /\ \E t, u \in DOMAIN transition_graph[M] :
                transition_graph[M][t] # transition_graph[M][u]
    /\ \E M \in reachable_markings : DOMAIN transition_graph[M] = {}

\* C30: for a net with no transitions, the completely empty net included,
\* detect_deadlock returns the initial marking as a deadlock, not absent.
C30_NoTransitionsDeadlock ==
    (pc = "detected" /\ transitions = {}) =>
        /\ det_result = Some(initial_marking)
        /\ deadlocks = <<initial_marking>>

\* The detector has returned on a net of marked and unmarked places and no
\* transition.
C30_Witness ==
    /\ pc = "detected"
    /\ transitions = {}
    /\ \E p, q \in places : initial_marking[p] /\ ~initial_marking[q]
    /\ det_result # None

\* C29: cancellation: the fixpoint, the cutting loop and the dfs check the
\* caller's token at their loop boundary; once the token is set, the step a
\* running loop takes next is its return with a cancelled result.
C29_Cancellation ==
    [][(cancel_token /\ pc \in {"fixpoint", "detect_loop", "dfs"}) =>
          pc' = "cancelled"]_vars

\* C31: the canonical cut of a candidate eliminates exactly the candidate:
\* for every candidate and every 0/1 vector x over the places, the cut holds
\* at x iff x differs from the candidate in some place.
C31_CutEliminatesExactly ==
    \A candidate \in [places -> {0, 1}], x \in [places -> {0, 1}] :
        CutHolds(candidate, x) <=> (\E p \in places : x[p] # candidate[p])

\* The detector has cut a candidate with a marked and an unmarked place.
C31_Witness ==
    /\ pc \in {"detect_loop", "detected"}
    /\ \E i \in 1..Len(cuts) :
          \E p, q \in places : cuts[i][p] = 1 /\ cuts[i][q] = 0

\* No element twice.
NoRepeat(seq) == \A i, j \in 1..Len(seq) : i < j => seq[i] # seq[j]

\* a is the beginning of b.
IsPrefix(a, b) == Len(a) <= Len(b) /\ \A i \in 1..Len(a) : a[i] = b[i]

\* C32: within one detect_deadlock run the cuts only grow, so no marking is
\* proposed twice, and every rejected candidate is dead and not in R.
C32_CutsOnlyGrow ==
    /\ [](/\ NoRepeat(cuts)
          /\ det_result # None =>
                \A i \in 1..Len(cuts) : Marking(cuts[i]) # TheValue(det_result)
          /\ \A i \in 1..Len(cuts) :
                /\ Dead(Marking(cuts[i]))
                /\ Marking(cuts[i]) \notin ReachableSet)
    /\ [][pc = "detect_loop" => IsPrefix(cuts, cuts')]_vars

\* A run that rejected two candidates, one after the other.
C32_Witness ==
    /\ pc \in {"detect_loop", "detected"}
    /\ Len(cuts) >= 2
    /\ cuts[1] # cuts[2]

\* The markings one firing away from a marking of S, by the firing rule.
FireImage(S) ==
    UNION {{TheValue(fire_transition(t, M).value) :
               t \in get_enabled_transitions(M)} : M \in S}

RECURSIVE ReachWithin(_)
\* The markings at most k firings away from the initial marking.
ReachWithin(k) ==
    IF k = 0 THEN {initial_marking}
    ELSE LET before == ReachWithin(k - 1)
         IN before \cup FireImage(before)

C34_FixpointTerminates ==
    /\ (pc = "fixpoint") ~> (pc = "computed")
    /\ [](fixpoint_iter <= Pow2(Cardinality(places)))
    /\ [](ComputeFinished =>
             /\ initial_marking \in ReachableSet
             /\ ReachWithin(Pow2(Cardinality(places))) \subseteq ReachableSet)

\* The loop has ended on a net with a self-loop place and a cycle through
\* the initial marking.
C34_Witness ==
    /\ pc = "computed"
    /\ fixpoint_iter >= 2
    /\ \E M \in ReachableSet \ {initial_marking} :
          initial_marking \in FireImage({M})

\* C36: the explicit BFS terminates on every finite net, cyclic ones
\* included, and each reached marking is enqueued and expanded at most once:
\* the queue holds reached markings, none twice, and a pass puts no marking
\* in the queue that was reached before the pass, the one it expands
\* included.
C36_BfsTerminates ==
    /\ (pc = "bfs") ~> (pc = "done")
    /\ [](NoRepeat(queue) /\ SeqToSet(queue) \subseteq reachable_markings)
    /\ [][pc = "bfs" /\ queue # <<>> =>
             \A M \in reachable_markings :
                 M \in SeqToSet(queue') => M \in SeqToSet(Tail(queue))]_vars

\* The search has ended on a net with a cycle through the initial marking.
C36_Witness ==
    /\ pc = "done"
    /\ Cardinality(reachable_markings) >= 2
    /\ \E M \in reachable_markings \ {initial_marking} :
          \E t \in DOMAIN transition_graph[M] :
              transition_graph[M][t] = initial_marking

\* The BDD of a set of total markings: the disjunction of their encodings.
encode(S) == UNION {encode_marking(M) : M \in S}

\* C35: post-image: for every set S of total markings, post(encode(S)) is
\* exactly the set of fire_transition(t, M) for M in S and t enabled at M, and
\* it is a set of assignments to the current variables alone.
C35_PostImage ==
    pc = "initialized" =>
        \A S \in SUBSET Assign :
            /\ post(encode(S)) = FireImage(S)
            /\ post(encode(S)) \subseteq Assign

C35_Witness ==
    /\ pc = "initialized"
    /\ \E S \in SUBSET Assign :
          /\ Cardinality(S) >= 2
          /\ \E M \in S : get_enabled_transitions(M) = {}
          /\ Cardinality(post(encode(S))) >= 2
          /\ post(encode(S)) = FireImage(S)

\* C37: membership agrees with the oracle: after both analyses have run from
\* M0, for every total marking M over the net's places, is_reachable(M) is
\* true iff M is in the set compute_reachability built.
C37_MembershipAgrees ==
    pc = "done" =>
        \A M \in Assign : is_reachable(M) <=> M \in reachable_markings

C37_Witness ==
    /\ pc = "done"
    /\ Cardinality(reachable_markings) >= 2
    /\ \E M \in Assign : ~is_reachable(M) /\ M \notin reachable_markings
    /\ \E M \in Assign \ {initial_marking} :
          is_reachable(M) /\ M \in reachable_markings

\* C38: the detector's membership test agrees with the engine's: for every
\* total 0/1 assignment over the net's places, _is_reachable (substitute and
\* compare with true) equals is_reachable (conjoin the encoding with R and
\* compare with false).
C38_DetectorTestAgrees ==
    (ComputeFinished /\ reachable_bdd # None) =>
        \A x \in [places -> {0, 1}] :
            det_is_reachable(x) <=> is_reachable(Marking(x))

C38_Witness ==
    /\ pc \in {"detect_loop", "detected"}
    /\ \E x \in [places -> {0, 1}] :
          det_is_reachable(x) /\ is_reachable(Marking(x))
    /\ \E x \in [places -> {0, 1}] :
          ~det_is_reachable(x) /\ ~is_reachable(Marking(x))

\* A frame of the dfs stack holds the markings of R that agree with its
\* partial assignment, and the score of that assignment.
FrameConsistent(f) ==
    /\ f.node # bdd_false
    /\ f.node = {m \in ReachableSet :
                    \A p \in DOMAIN f.assignment : m[p] = (f.assignment[p] = 1)}
    /\ f.cur_score = score(place_weights, f.assignment)

\* C39: branch-and-bound invariant: at every step of the exact-mode dfs,
\* best_mark is a total marking of R whose score is best_score, best_score
\* never decreases, every visited node is a non-empty subset of R consistent
\* with the partial assignment, and a subtree is cut off only when cur_score
\* plus the remaining positive weights is at most best_score, so no marking
\* that scores more than best_score is discarded.
C39_BranchAndBound ==
    /\ [](pc = "dfs" =>
            /\ best_mark # None
            /\ DOMAIN TheValue(best_mark) = places
            /\ Marking(TheValue(best_mark)) \in ReachableSet
            /\ score(place_weights, TheValue(best_mark)) = best_score
            /\ \A i \in 1..Len(stack) : FrameConsistent(stack[i]))
    /\ [][(pc = "dfs" /\ pc' = "dfs") => best_score' >= best_score]_vars
    /\ [][(pc = "dfs" /\ stack # <<>> /\ stack' = Tail(stack)) =>
            LET f == Head(stack)
            IN /\ f.idx < Len(order(place_weights)) =>
                      f.cur_score + suffix_pos(place_weights, f.idx)
                          <= best_score
               /\ \A m \in f.node :
                      score(place_weights, assign_to_marking(m))
                          <= best_score']_vars

C39_Witness ==
    /\ pc = "dfs"
    /\ stack # <<>>
    /\ Head(stack).idx \in 1..(Len(order(place_weights)) - 1)
    /\ Cardinality(Head(stack).node) >= 2
    /\ Head(stack).cur_score
           + suffix_pos(place_weights, Head(stack).idx) <= best_score
    /\ suffix_pos(place_weights, Head(stack).idx) > 0

\* C40: incidence cache coherence: after any interleaving of add_place,
\* add_transition, add_arc and get_incidence calls, the matrix get_incidence
\* returns is the matrix of the net's current places, transitions and flow.
C40_CacheCoherent ==
    call.op = "get_incidence" => ret.value = Some(compute_incidence)

====
